---- MODULE Spec2Model ----
(***************************************************************************)
(* Cost-optimization tracker: the three-partition ledger (InProgress,      *)
(* Complete, Exempt) kept as parquet blobs in S3, the per-session copies   *)
(* held in streamlit's session_state, and the handlers of                  *)
(* CostOptimizationDataPull.py and admintools/adminfunctions.py that read  *)
(* and write them.                                                         *)
(*                                                                         *)
(* A data frame is a sequence of rows.  The row labels of a frame loaded   *)
(* from the store are 0 .. len-1 (write_tracker resets the index), so the  *)
(* row with label i is element i+1 of the sequence.  While a handler      *)
(* works on a frame, rows are dropped and added by label; such a working   *)
(* frame is a sequence of [idx, row] pairs.                                *)
(***************************************************************************)
EXTENDS Integers, Sequences, FiniteSets, TLC

\* ------------------------------------------------------------------ dates
\* A calendar date is a number y * |DayLabels| + md: year y, and md one of
\* the three days around the leap day: 0 = Feb 28, 1 = Feb 29, 2 = Mar 1.
\* Dates compare as their numbers do.
DayLabels == {0, 1, 2}

MaxYear == 4

NoDate == -1

IsLeap(y) == y % 4 = 0

MkDate(y, md) == y * Cardinality(DayLabels) + md

YearOf(d) == d \div Cardinality(DayLabels)

DayOf(d) == d % Cardinality(DayLabels)

ValidDate(d) == DayOf(d) = 1 => IsLeap(YearOf(d))

Dates == {d \in 0..MkDate(MaxYear, 2) : ValidDate(d)}

\* d - relativedelta(years=+n): the same month and day n years earlier, Feb 29
\* becoming Feb 28 when the target year has no leap day.
YearsBefore(d, n) ==
    LET y == YearOf(d) - n
    IN  MkDate(y, IF DayOf(d) = 1 /\ ~IsLeap(y) THEN 0 ELSE DayOf(d))

RetentionYears == 2

\* ---------------------------------------------------------------- strings
\* str.lower() on the strings the model uses.
Lower(s) ==
    CASE s = "Complete" -> "complete"
      [] s = "COMPLETE" -> "complete"
      [] s = "Completed" -> "completed"
      [] s = "Exempt" -> "exempt"
      [] s = "EXEMPT" -> "exempt"
      [] s = "In Progress" -> "in progress"
      [] s = "Needs Research" -> "needs research"
      [] s = "Archived" -> "archived"
      [] s = "Archive" -> "archive"
      [] s = "DeleteMe" -> "deleteme"
      [] s = "NaN" -> "nan"
      [] OTHER -> s

\* Python's None in a string column.
NoneStr == "<None>"

\* ------------------------------------------------------------------- rows
\* The columns of DF_TYPE_DICT that the handlers read or write; Comments
\* stands for the columns they only carry along.
MkRow(rid, stype, status, lm, dos, comments) ==
    [ResourceId |-> rid, SavingsType |-> stype, FinOpsStatus |-> status,
     FinOpsLastModified |-> lm, DateOfSavings |-> dos, Comments |-> comments]

\* The pair a record is matched on.
RowKeyOf(row) == <<row.ResourceId, row.SavingsType>>

SeqToSet(s) == {s[i] : i \in DOMAIN s}

RECURSIVE SelectRows(_, _)
\* The rows of s whose position is in keep, in order.
SelectRows(s, keep) ==
    IF s = <<>> THEN <<>>
    ELSE LET n == Len(s)
             front == SelectRows(SubSeq(s, 1, n - 1), keep)
         IN  IF n \in keep THEN Append(front, s[n]) ELSE front

\* -------------------------------------------------- split_inprogress_complete
\* A replacement that takes two passes: "nan" becomes "NaN", "NaN" becomes None.
ReplaceNan_TwoPass(v) == IF v = "nan" THEN "NaN" ELSE IF v = "NaN" THEN NoneStr ELSE v

\* Lines 305-306: df.replace("nan", None) and df.replace("NaN", None) on one cell.
ReplaceNan(v) == IF v = "nan" \/ v = "NaN" THEN NoneStr ELSE v

ReplaceNanRow(r) ==
    [r EXCEPT !.ResourceId = ReplaceNan(@), !.SavingsType = ReplaceNan(@),
              !.FinOpsStatus = ReplaceNan(@), !.Comments = ReplaceNan(@)]

\* The test without .lower().
IsCompletedStatus_CaseSensitive(status) ==
    status = "complete" \/ status = "exempt"

\* The test of lines 311-314; .lower() of None raises.
IsCompletedStatus(status) ==
    Lower(status) = "complete" \/ Lower(status) = "exempt"

\* Cells that are not strings: None, a float NaN, an integer.
NaNCell == "<float nan>"
IntCell == "<int 1>"
NonStrings == {NoneStr, NaNCell, IntCell}

LowerRaises_NoneOnly(v) == v = NoneStr

\* v.lower() raises AttributeError when v is not a string (line 311).
LowerRaises(v) == v \in NonStrings

SplitRaises(df) ==
    \E i \in DOMAIN df : LowerRaises(ReplaceNan(df[i].FinOpsStatus))

RECURSIVE SplitLoop(_, _, _, _)
\* The loop of lines 310-317 from row k on: each row is appended to cdf or idf.
SplitLoop(df, k, idf, cdf) ==
    IF k > Len(df) THEN [idf |-> idf, cdf |-> cdf]
    ELSE IF IsCompletedStatus(df[k].FinOpsStatus)
         THEN SplitLoop(df, k + 1, idf, Append(cdf, df[k]))
         ELSE SplitLoop(df, k + 1, Append(idf, df[k]), cdf)

split_inprogress_complete(df) ==
    SplitLoop([i \in DOMAIN df |-> ReplaceNanRow(df[i])], 1, <<>>, <<>>)

\* ------------------------------------------------------------ working frames
Frame(rows) == [k \in DOMAIN rows |-> [idx |-> k - 1, row |-> rows[k]]]

HasLabel(f, l) == \E k \in DOMAIN f : f[k].idx = l

LocRow(f, l) == f[CHOOSE k \in DOMAIN f : f[k].idx = l].row

\* f.loc[l] = row: replaces the row labelled l, or adds one when no row has
\* that label (setting with enlargement).
SetLoc(f, l, row) ==
    IF HasLabel(f, l)
    THEN [k \in DOMAIN f |-> IF f[k].idx = l THEN [idx |-> l, row |-> row] ELSE f[k]]
    ELSE Append(f, [idx |-> l, row |-> row])

\* f.drop([l])
DropLabel(f, l) == SelectRows(f, {k \in DOMAIN f : f[k].idx # l})

\* df.reset_index(drop=True)
ResetIndex(f) == [k \in DOMAIN f |-> f[k].row]

\* One entry of edited_rows: the columns the user changed in one row.
ApplyEdit(row, cols) ==
    [c \in DOMAIN row |-> IF c \in DOMAIN cols THEN cols[c] ELSE row[c]]

\* ------------------------------------------------------------------ state
Sessions == {"A", "B"}

VARIABLES
    today,          \* date.today() on the host
    s3_inprogress,  \* the blob S3_TRACKER_INPROGRESS
    s3_complete,    \* the blob S3_TRACKER_COMPLETE
    s3_exempt,      \* the blob S3_TRACKER_EXEMPT
    ss,             \* session A's session_state: tracker_df, ctracker_df, extracker_df
    summary,        \* the findings summary file (s_file)
    last,           \* the handler that ran last, its inputs and what it returned
    ops,            \* how many handlers have run
    call            \* the last call of a function checked on its own, with its result

vars == <<today, s3_inprogress, s3_complete, s3_exempt, ss, summary, last, ops, call>>

ledger == <<s3_inprogress, s3_complete, s3_exempt>>

\* ------------------------------------------------- modify_inprogress_tracker
RECURSIVE ApplyEditsStamp(_, _, _, _)
\* Lines 392-398: every edited column is written into the session's frame and
\* the row's FinOpsLastModified is set to today.
ApplyEditsStamp(df, edits, k, now) ==
    IF k > Len(edits) THEN df
    ELSE LET i == edits[k].idx + 1
             r == [ApplyEdit(df[i], edits[k].cols) EXCEPT !.FinOpsLastModified = now]
         IN  ApplyEditsStamp([df EXCEPT ![i] = r], edits, k + 1, now)

\* A row moved to Complete without DateOfSavings being set.
CompletedRow_Unstamped(row, now) == row

\* Line 402: the row a save moves to Complete carries the day of the save.
CompletedRow(row, now) == [row EXCEPT !.DateOfSavings = now]

RECURSIVE MoveLoop(_, _, _, _, _, _, _)
\* Lines 400-413 from the k-th edited index on.  tdf is ss.tracker_df, fi the
\* working frame s3_i_df, c and e the frames s3_c_df and s3_ex_df.
MoveLoop(edits, k, tdf, fi, c, e, now) ==
    IF k > Len(edits) THEN [raised |-> FALSE, i |-> ResetIndex(fi), c |-> c, e |-> e]
    ELSE LET idx == edits[k].idx
             row == tdf[idx + 1]
             fi1 == SetLoc(fi, idx, row)
         IN  IF row.FinOpsStatus = NoneStr
             THEN [raised |-> TRUE, i |-> <<>>, c |-> <<>>, e |-> <<>>]
             ELSE IF Lower(row.FinOpsStatus) = "complete"
             THEN MoveLoop(edits, k + 1, tdf, DropLabel(fi1, idx),
                           Append(c, CompletedRow(row, now)), e, now)
             ELSE IF Lower(row.FinOpsStatus) = "exempt"
             THEN MoveLoop(edits, k + 1, tdf, DropLabel(fi1, idx), c, Append(e, row), now)
             ELSE IF row.FinOpsStatus = "DeleteMe"
             THEN MoveLoop(edits, k + 1, tdf, DropLabel(fi1, idx), c, e, now)
             ELSE MoveLoop(edits, k + 1, tdf, fi1, c, e, now)

\* What modify_inprogress_tracker writes, given the three blobs it loads, the
\* session's ss.tracker_df and ss.ietracker["edited_rows"].
modify_inprogress_result(i, c, e, tdf, edits, now) ==
    MoveLoop(edits, 1, ApplyEditsStamp(tdf, edits, 1, now), Frame(i), c, e, now)

\* --------------------------------- modify_complete_tracker, modify_exempt_tracker
RECURSIVE ApplyEdits(_, _, _)
\* Lines 434-439 (and 476-481): every edited column is written into the
\* session's frame.
ApplyEdits(df, edits, k) ==
    IF k > Len(edits) THEN df
    ELSE LET i == edits[k].idx + 1
         IN  ApplyEdits([df EXCEPT ![i] = ApplyEdit(df[i], edits[k].cols)], edits, k + 1)

\* The test with a row stamped on the same day rejected.
EditAccepted_Strict(edited, stored) ==
    \/ stored.FinOpsLastModified = NoDate
    \/ edited.FinOpsLastModified > stored.FinOpsLastModified

\* The test of lines 447-453: the session's row replaces the stored row.
EditAccepted(edited, stored) ==
    \/ stored.FinOpsLastModified = NoDate
    \/ edited.FinOpsLastModified >= stored.FinOpsLastModified

\* The deletion made subject to the test: a rejected row is not dropped.
ConflictStep_CheckedDelete(f, idx, row) ==
    LET ok == EditAccepted(row, LocRow(f, idx))
        f1 == IF ok THEN SetLoc(f, idx, row) ELSE f
    IN  [f |-> IF ok /\ row.FinOpsStatus = "DeleteMe" THEN DropLabel(f1, idx) ELSE f1,
         rejected |-> ~ok]

\* Lines 447-457 (and 489-499) for one edited index: the session's row
\* replaces the stored row or the index is rejected, and then a row whose
\* status is DeleteMe is dropped.
ConflictStep(f, idx, row) ==
    LET ok == EditAccepted(row, LocRow(f, idx))
        f1 == IF ok THEN SetLoc(f, idx, row) ELSE f
    IN  [f |-> IF row.FinOpsStatus = "DeleteMe" THEN DropLabel(f1, idx) ELSE f1,
         rejected |-> ~ok]

RECURSIVE ConflictLoop(_, _, _, _, _, _)
\* Lines 441-457 (and 483-499) from the k-th edited index on.  sdf is the
\* session's frame, f the working frame loaded from the store.  Reading a
\* label the loaded frame does not have raises KeyError.
ConflictLoop(edits, k, sdf, f, unwritten, now) ==
    IF k > Len(edits)
    THEN [raised |-> FALSE, df |-> ResetIndex(f), unwritten |-> unwritten]
    ELSE LET idx == edits[k].idx
             row == [sdf[idx + 1] EXCEPT !.FinOpsLastModified = now]
         IN  IF ~HasLabel(f, idx)
             THEN [raised |-> TRUE, df |-> <<>>, unwritten |-> <<>>]
             ELSE LET step == ConflictStep(f, idx, row)
                  IN  ConflictLoop(edits, k + 1, sdf, step.f,
                                   IF step.rejected THEN Append(unwritten, idx) ELSE unwritten,
                                   now)

\* What modify_complete_tracker writes and returns, given the blob it loads,
\* ss.ctracker_df and ss.cetracker["edited_rows"].
modify_complete_result(c, cdf, edits, now) ==
    ConflictLoop(edits, 1, ApplyEdits(cdf, edits, 1), Frame(c), <<>>, now)

\* modify_exempt_tracker: the same statements on the exempt blob,
\* ss.extracker_df and ss.eextracker["edited_rows"].
modify_exempt_result(e, edf, edits, now) ==
    ConflictLoop(edits, 1, ApplyEdits(edf, edits, 1), Frame(e), <<>>, now)

\* ------------------------------------------------------------ archive_findings
\* The test with the boundary day included.
Archivable_Inclusive(row, now) ==
    /\ row.DateOfSavings # NoDate
    /\ row.DateOfSavings <= YearsBefore(now, RetentionYears)

\* The test of lines 595-596.
Archivable(row, now) ==
    /\ row.DateOfSavings # NoDate
    /\ row.DateOfSavings < YearsBefore(now, RetentionYears)

RECURSIVE ArchiveLoop(_, _, _, _, _)
\* Lines 594-598 from row k of the loaded frame on; shown is what
\* st.write("Dropping row ...") has shown so far.
ArchiveLoop(c, k, f, shown, now) ==
    IF k > Len(c) THEN [df |-> ResetIndex(f), shown |-> shown]
    ELSE IF Archivable(LocRow(f, k - 1), now)
         THEN ArchiveLoop(c, k + 1, DropLabel(f, k - 1), Append(shown, c[k]), now)
         ELSE ArchiveLoop(c, k + 1, f, shown, now)

archive_result(c, now) == ArchiveLoop(c, 1, Frame(c), <<>>, now)

\* ---------------------------------------------------------------- import_status
TerminalStatuses == {"needs research", "complete", "completed", "archived", "archive"}

\* The copy made on ResourceId alone.
CopyStatus_AnyType(aggregation, resid, stype, status) ==
    [a \in DOMAIN aggregation |->
        IF aggregation[a].ResourceId = resid
        THEN [aggregation[a] EXCEPT !.FinOpsStatus = status]
        ELSE aggregation[a]]

\* Lines 913-915: every finding with the record's ResourceId and Savings Type
\* takes the record's status.
CopyStatus(aggregation, resid, stype, status) ==
    [a \in DOMAIN aggregation |->
        IF aggregation[a].ResourceId = resid /\ aggregation[a].SavingsType = stype
        THEN [aggregation[a] EXCEPT !.FinOpsStatus = status]
        ELSE aggregation[a]]

RECURSIVE ImportLoop(_, _, _)
\* Lines 899-915 from row k of merged_df on.
ImportLoop(merged, k, aggregation) ==
    IF k > Len(merged) THEN aggregation
    ELSE IF merged[k].ResourceId = NoneStr
         THEN ImportLoop(merged, k + 1, aggregation)
         ELSE LET status == IF merged[k].FinOpsStatus = NoneStr
                            THEN "Needs Research"
                            ELSE merged[k].FinOpsStatus
              IN  IF Lower(status) \notin TerminalStatuses
                  THEN ImportLoop(merged, k + 1,
                           CopyStatus(aggregation, merged[k].ResourceId,
                                      merged[k].SavingsType, status))
                  ELSE ImportLoop(merged, k + 1, aggregation)

\* The loop run on the exempt snapshot followed by the in-progress one.
import_status_ExemptFirst(aggregation, tracker_df, extracker_df) ==
    ImportLoop(extracker_df \o tracker_df, 1, aggregation)

\* merged_df is ss.tracker_df followed by ss.extracker_df (line 896).
import_status(aggregation, tracker_df, extracker_df) ==
    ImportLoop(tracker_df \o extracker_df, 1, aggregation)

\* ---------------------------------------------------- parse_findings, get_finding
\* The findings AWS reports, as find_unattached_ebs builds them.
AwsFindings ==
    << [resourceId |-> "r1", actionType |-> "t1"],
       [resourceId |-> "r2", actionType |-> "t1"] >>

\* Lines 116-191 for one finding that has a resourceId and no tags: the
\* defaults of lines 111-113 and the finding's own id and action type.
parse_finding(item, now) ==
    MkRow(item.resourceId, item.actionType, "Needs Research", now, NoDate, "")

parse_findings(itemlist, now) ==
    [k \in DOMAIN itemlist |-> parse_finding(itemlist[k], now)]

\* aggregate_summary_parallel with STATUS_IMPORT set: the parsed findings with
\* the tracker's statuses imported.
aggregate_summary(findings, tracker_df, extracker_df, now) ==
    import_status(parse_findings(findings, now), tracker_df, extracker_df)

\* ------------------------------------------------------------------ add_to_tracker
\* Every edited row of the findings table taken as ticked.
Flagged_Any(entry) == TRUE

\* Line 621: the row's MoveToTracker box is ticked.
Flagged(entry) == entry.MoveToTracker

RECURSIVE AddLoop(_, _, _, _)
\* Lines 620-623 from the k-th edited row on: a flagged row is appended to
\* ss.tracker_df and dropped from the summary frame f.
AddLoop(entries, k, tdf, f) ==
    IF k > Len(entries) THEN [tracker_df |-> tdf, df |-> ResetIndex(f)]
    ELSE IF Flagged(entries[k])
         THEN AddLoop(entries, k + 1, Append(tdf, LocRow(f, entries[k].idx)),
                      DropLabel(f, entries[k].idx))
         ELSE AddLoop(entries, k + 1, tdf, f)

add_to_tracker_result(df, tdf, entries) == AddLoop(entries, 1, tdf, Frame(df))

\* ------------------------------------------------- add_self_identified_to_tracker
\* A row created by setting with enlargement: the columns not set are empty.
BlankRow == MkRow(NoneStr, NoneStr, NoneStr, NoDate, NoDate, NoneStr)

RECURSIVE SelfAddLoop(_, _, _)
\* Lines 647-650 from the k-th added row on.
SelfAddLoop(added, k, tdf) ==
    IF k > Len(added) THEN tdf
    ELSE SelfAddLoop(added, k + 1, Append(tdf, ApplyEdit(BlankRow, added[k])))

\* ------------------------------------------------------------------- split_exempt
RECURSIVE ExemptLoop(_, _, _, _)
\* Lines 67-72 (and 73-78) of adminfunctions.py from row k of the loaded
\* frame on: an exempt row is appended to exdf and dropped from the frame.
ExemptLoop(df, k, f, exdf) ==
    IF k > Len(df) THEN [df |-> ResetIndex(f), exdf |-> exdf]
    ELSE IF Lower(df[k].FinOpsStatus) = "exempt"
         THEN ExemptLoop(df, k + 1, DropLabel(f, k - 1), Append(exdf, df[k]))
         ELSE ExemptLoop(df, k + 1, f, exdf)

ExemptRaises(df) == \E k \in DOMAIN df : df[k].FinOpsStatus = NoneStr

split_exempt_result(i, c) ==
    LET a == ExemptLoop(i, 1, Frame(i), <<>>)
        b == ExemptLoop(c, 1, Frame(c), a.exdf)
    IN  [i |-> a.df, c |-> b.df, e |-> b.exdf]

\* ----------------------------------------------------------------- inputs
MaxRows == 2

MaxEdits == 2

MaxOps == 3

\* The dates the host's clock shows while the ledger is edited: one before
\* and one after the other, more than the retention period apart.
ClockDates == {MkDate(0, 2), MkDate(3, 0)}

\* What a user types into the FinOpsStatus column.
StatusInputs == {"COMPLETE", "Exempt", "DeleteMe"}

\* The entries of edited_rows the model draws from: one status, or a comment.
EditCols ==
    {[FinOpsStatus |-> x] : x \in StatusInputs} \cup {[Comments |-> "note"]}

RECURSIVE EditSeqsOfLen(_, _)
\* The sequences of m edits of distinct rows of a frame of n rows.
EditSeqsOfLen(n, m) ==
    IF m = 0 THEN {<<>>}
    ELSE {Append(e, [idx |-> i, cols |-> c]) :
            e \in {x \in EditSeqsOfLen(n, m - 1) : TRUE},
            i \in 0..(n - 1), c \in EditCols}

DistinctRows(e) == \A j, k \in DOMAIN e : j # k => e[j].idx # e[k].idx

\* edited_rows as the sequence of its items, in the order the user made the
\* edits: up to MaxEdits distinct row labels of a frame of n rows, each with
\* the columns edited.
EditSeqs(n) ==
    {e \in UNION {EditSeqsOfLen(n, m) : m \in 1..MaxEdits} : DistinctRows(e)}

\* The rows a user adds in the Row_Add_Form.
AddedRows ==
    {[ResourceId |-> "r2", SavingsType |-> "t1", FinOpsStatus |-> x] :
        x \in {"In Progress", "Complete"}}
    \cup {[ResourceId |-> "r2", SavingsType |-> "t1"]}

\* edited_rows of a findings page: rows with the MoveToTracker box set or cleared.
MoveSeqs(n) ==
    {<<[idx |-> i, MoveToTracker |-> b]>> : i \in 0..(n - 1), b \in BOOLEAN}

\* The record of a handler's run: the session, the edited_rows it was given,
\* whether it raised, the list it returned (empty for a handler that returns
\* none) and the rows it showed as dropped.
Op(name, s, edits, raised, unwritten) ==
    [op |-> name, ses |-> s, edits |-> edits, raised |-> raised,
     unwritten |-> unwritten, shown |-> <<>>]

NoCall == [fn |-> "none"]

\* The frame a session works on: session A holds the copy it loaded when its
\* page was rendered, every other session has just rendered the page.
SessionFrame(s, copy, stored) == IF s = "A" THEN copy ELSE stored

\* ------------------------------------------------------------------ actions
\* The ledger when the dashboard starts, and session A's copy of it as
\* HF_CostOpt_Home.py loads it.
InitLedger ==
    /\ today = MkDate(3, 0)
    /\ s3_inprogress = <<MkRow("r1", "t1", "In Progress", MkDate(3, 0), NoDate, "")>>
    /\ s3_complete = <<MkRow("r3", "t1", "Complete", MkDate(3, 0), MkDate(3, 0), "")>>
    /\ s3_exempt = <<MkRow("r4", "t1", "Exempt", MkDate(3, 0), NoDate, "")>>
    /\ ss = [tracker_df |-> s3_inprogress, ctracker_df |-> s3_complete,
             extracker_df |-> s3_exempt]
    /\ summary = <<>>
    /\ last = Op("start", "A", <<>>, FALSE, <<>>)
    /\ ops = 0

Init == InitLedger /\ call = NoCall

\* The host's date changes.
SetClock ==
    /\ \E d \in ClockDates : d # today /\ today' = d
    /\ last' = Op("clock", "A", <<>>, FALSE, <<>>)
    /\ UNCHANGED <<s3_inprogress, s3_complete, s3_exempt, ss, summary, ops, call>>

\* pages/1_CostTracker.py line 83, in session A
LoadTrackerPage ==
    /\ ss' = [ss EXCEPT !.tracker_df = s3_inprogress]
    /\ last' = Op("load", "A", <<>>, FALSE, <<>>)
    /\ UNCHANGED <<today, s3_inprogress, s3_complete, s3_exempt, summary, ops, call>>

\* pages/5_CostSavingsCharts.py line 72, in session A
LoadCompletePage ==
    /\ ss' = [ss EXCEPT !.ctracker_df = s3_complete]
    /\ last' = Op("load", "A", <<>>, FALSE, <<>>)
    /\ UNCHANGED <<today, s3_inprogress, s3_complete, s3_exempt, summary, ops, call>>

\* pages/6_CostExemptions.py line 37, in session A
LoadExemptPage ==
    /\ ss' = [ss EXCEPT !.extracker_df = s3_exempt]
    /\ last' = Op("load", "A", <<>>, FALSE, <<>>)
    /\ UNCHANGED <<today, s3_inprogress, s3_complete, s3_exempt, summary, ops, call>>

\* write_tracker's ss.<frame> = df.copy() (lines 552, 557, 562), kept for session A.
Keep(s, copy, written) == IF s = "A" THEN written ELSE copy

ModifyInProgress(s) ==
    /\ ops < MaxOps
    /\ LET tdf == SessionFrame(s, ss.tracker_df, s3_inprogress)
       IN  \E edits \in EditSeqs(Len(tdf)) :
             LET r == modify_inprogress_result(s3_inprogress, s3_complete, s3_exempt,
                                               tdf, edits, today)
             IN  /\ ~r.raised =>
                        Len(r.c) <= MaxRows /\ Len(r.e) <= MaxRows /\ Len(r.i) <= MaxRows
                 /\ IF r.raised
                    THEN UNCHANGED <<s3_inprogress, s3_complete, s3_exempt, ss>>
                    ELSE /\ s3_inprogress' = r.i
                         /\ s3_complete' = r.c
                         /\ s3_exempt' = r.e
                         /\ ss' = [tracker_df |-> Keep(s, ss.tracker_df, r.i),
                                   ctracker_df |-> Keep(s, ss.ctracker_df, r.c),
                                   extracker_df |-> Keep(s, ss.extracker_df, r.e)]
                 /\ last' = Op("modify_inprogress", s, edits, r.raised, <<>>)
    /\ ops' = ops + 1
    /\ UNCHANGED <<today, summary, call>>

ModifyComplete(s) ==
    /\ ops < MaxOps
    /\ LET cdf == SessionFrame(s, ss.ctracker_df, s3_complete)
       IN  \E edits \in EditSeqs(Len(cdf)) :
             LET r == modify_complete_result(s3_complete, cdf, edits, today)
             IN  /\ IF r.raised
                    THEN UNCHANGED <<s3_complete, ss>>
                    ELSE /\ s3_complete' = r.df
                         /\ ss' = [ss EXCEPT !.ctracker_df = Keep(s, @, r.df)]
                 /\ last' = Op("modify_complete", s, edits, r.raised, r.unwritten)
    /\ ops' = ops + 1
    /\ UNCHANGED <<today, s3_inprogress, s3_exempt, summary, call>>

ModifyExempt(s) ==
    /\ ops < MaxOps
    /\ LET edf == SessionFrame(s, ss.extracker_df, s3_exempt)
       IN  \E edits \in EditSeqs(Len(edf)) :
             LET r == modify_exempt_result(s3_exempt, edf, edits, today)
             IN  /\ IF r.raised
                    THEN UNCHANGED <<s3_exempt, ss>>
                    ELSE /\ s3_exempt' = r.df
                         /\ ss' = [ss EXCEPT !.extracker_df = Keep(s, @, r.df)]
                 /\ last' = Op("modify_exempt", s, edits, r.raised, r.unwritten)
    /\ ops' = ops + 1
    /\ UNCHANGED <<today, s3_inprogress, s3_complete, summary, call>>

ArchiveFindings(s) ==
    /\ ops < MaxOps
    /\ LET r == archive_result(s3_complete, today)
       IN  /\ s3_complete' = r.df
           /\ ss' = [ss EXCEPT !.ctracker_df = Keep(s, @, r.df)]
           /\ last' = [Op("archive", s, <<>>, FALSE, <<>>) EXCEPT !.shown = r.shown]
    /\ ops' = ops + 1
    /\ UNCHANGED <<today, s3_inprogress, s3_exempt, summary, call>>

\* get_finding regenerating the findings (lines 959-961).
Pull(s) ==
    /\ ops < MaxOps
    /\ summary' = aggregate_summary(AwsFindings,
                                    SessionFrame(s, ss.tracker_df, s3_inprogress),
                                    SessionFrame(s, ss.extracker_df, s3_exempt), today)
    /\ last' = Op("pull", s, <<>>, FALSE, <<>>)
    /\ ops' = ops + 1
    /\ UNCHANGED <<today, s3_inprogress, s3_complete, s3_exempt, ss, call>>

AddToTracker(s) ==
    /\ ops < MaxOps
    /\ \E entries \in MoveSeqs(Len(summary)) :
        LET r == add_to_tracker_result(summary,
                                       SessionFrame(s, ss.tracker_df, s3_inprogress),
                                       entries)
        IN  /\ Len(r.tracker_df) <= MaxRows
            /\ summary' = r.df
            /\ s3_inprogress' = r.tracker_df
            /\ ss' = [ss EXCEPT !.tracker_df = Keep(s, @, r.tracker_df)]
            /\ last' = Op("add_to_tracker", s, entries, FALSE, <<>>)
    /\ ops' = ops + 1
    /\ UNCHANGED <<today, s3_complete, s3_exempt, call>>

AddSelfIdentified(s) ==
    /\ ops < MaxOps
    /\ \E row \in AddedRows :
        LET tdf == SelfAddLoop(<<row>>, 1, SessionFrame(s, ss.tracker_df, s3_inprogress))
        IN  /\ Len(tdf) <= MaxRows
            /\ s3_inprogress' = tdf
            /\ ss' = [ss EXCEPT !.tracker_df = Keep(s, @, tdf)]
            /\ last' = Op("add_self_identified", s, <<row>>, FALSE, <<>>)
    /\ ops' = ops + 1
    /\ UNCHANGED <<today, s3_complete, s3_exempt, summary, call>>

SplitExempt ==
    /\ ops < MaxOps
    /\ LET raised == ExemptRaises(s3_inprogress) \/ ExemptRaises(s3_complete)
           r == split_exempt_result(s3_inprogress, s3_complete)
       IN  /\ IF raised
              THEN UNCHANGED <<s3_inprogress, s3_complete, s3_exempt>>
              ELSE /\ s3_inprogress' = r.i
                   /\ s3_complete' = r.c
                   /\ s3_exempt' = r.e
           /\ last' = Op("split_exempt", "admin", <<>>, raised, <<>>)
    /\ ops' = ops + 1
    /\ UNCHANGED <<today, ss, summary, call>>

Next ==
    \/ SetClock
    \/ LoadTrackerPage
    \/ LoadCompletePage
    \/ LoadExemptPage
    \/ \E s \in Sessions : ModifyInProgress(s)
    \/ \E s \in Sessions : ModifyComplete(s)
    \/ \E s \in Sessions : ModifyExempt(s)
    \/ \E s \in Sessions : ArchiveFindings(s)
    \/ \E s \in Sessions : Pull(s)
    \/ \E s \in Sessions : AddToTracker(s)
    \/ \E s \in Sessions : AddSelfIdentified(s)
    \/ SplitExempt

Spec == Init /\ [][Next]_vars

\* The ledger edited from findings and pages only: no row typed in by hand,
\* no run of the admin tool.
NextFindings ==
    \/ SetClock
    \/ LoadTrackerPage
    \/ LoadCompletePage
    \/ LoadExemptPage
    \/ \E s \in Sessions : ModifyInProgress(s)
    \/ \E s \in Sessions : ModifyComplete(s)
    \/ \E s \in Sessions : ModifyExempt(s)
    \/ \E s \in Sessions : ArchiveFindings(s)
    \/ \E s \in Sessions : Pull(s)
    \/ \E s \in Sessions : AddToTracker(s)

SpecFindings == Init /\ [][NextFindings]_vars

\* --------------------------------------------- split_inprogress_complete, called
MaxLen == 3

TablesUpTo(rows, n) == UNION {[1..m -> rows] : m \in 0..n}

\* Tracker rows as convert_excel hands them to the split: an empty cell of a
\* string column reads "nan".
SplitRows ==
    {MkRow(rid, "t1", st, MkDate(3, 0), NoDate, cm) :
        rid \in {"r1", "r2"},
        st \in {"Complete", "COMPLETE", "Exempt", "In Progress", "nan"},
        cm \in {"", "nan"}}

PendingSplit(df) ==
    [fn |-> "split", returned |-> FALSE, df |-> df, raised |-> FALSE,
     idf |-> <<>>, cdf |-> <<>>]

InitSplit ==
    /\ InitLedger
    /\ call \in {PendingSplit(df) : df \in TablesUpTo(SplitRows, MaxLen)}

CallSplit ==
    /\ call.fn = "split" /\ ~call.returned
    /\ call' = IF SplitRaises(call.df)
               THEN [call EXCEPT !.returned = TRUE, !.raised = TRUE]
               ELSE LET r == split_inprogress_complete(call.df)
                    IN  [call EXCEPT !.returned = TRUE, !.idf = r.idf, !.cdf = r.cdf]
    /\ UNCHANGED <<today, s3_inprogress, s3_complete, s3_exempt, ss, summary, last, ops>>

SpecSplit == InitSplit /\ [][CallSplit]_vars

\* ------------------------- split_inprogress_complete, called on any table's columns
\* The columns of DF_TYPE_DICT the model carries (see MkRow).
DF_TYPE_DICT ==
    {"ResourceId", "SavingsType", "FinOpsStatus", "FinOpsLastModified",
     "DateOfSavings", "Comments"}

\* The value a column missing from the appended row takes in idf or cdf:
\* NaT in a date column, NaN (read back as missing) in any other.
MissingCell(col) ==
    IF col \in {"FinOpsLastModified", "DateOfSavings"} THEN NoDate ELSE NoneStr

\* cdf.loc[len(cdf)] = df.loc[index].copy() (lines 312-317): the row is aligned
\* to the 13 columns of the output frame, a column it lacks is left missing.
AlignRow(row) ==
    [col \in DF_TYPE_DICT |-> IF col \in DOMAIN row THEN row[col] ELSE MissingCell(col)]

\* The outcome of split_inprogress_complete on a table with the given columns:
\* df.loc[index, "FinOpsStatus"] raises KeyError at the first row when the
\* column is missing, .lower() raises AttributeError on a cell that is no string.
split_table(columns, rows) ==
    IF rows # <<>> /\ "FinOpsStatus" \notin columns
    THEN [raised |-> "KeyError", idf |-> <<>>, cdf |-> <<>>]
    ELSE LET df == [k \in DOMAIN rows |-> AlignRow(rows[k])]
         IN  IF SplitRaises(df)
             THEN [raised |-> "AttributeError", idf |-> <<>>, cdf |-> <<>>]
             ELSE LET r == split_inprogress_complete(df)
                  IN  [raised |-> "none", idf |-> r.idf, cdf |-> r.cdf]

TableLen == 2

\* Tables of every column set that holds ResourceId, with statuses of any type.
TableColumnSets == {cs \in SUBSET DF_TYPE_DICT : "ResourceId" \in cs}

TableStatuses == {"complete", "COMPLETE", "in progress", NaNCell, IntCell}

TableRow(columns, k, status) ==
    LET full == MkRow("r" \o ToString(k), "t1", status, MkDate(3, 0), NoDate, "")
    IN  [col \in columns |-> full[col]]

PendingSplitTable(columns, statuses) ==
    [fn |-> "split_table", returned |-> FALSE, columns |-> columns,
     rows |-> [k \in DOMAIN statuses |-> TableRow(columns, k, statuses[k])],
     statuses |-> statuses, raised |-> "none", idf |-> <<>>, cdf |-> <<>>]

InitSplitTable ==
    /\ InitLedger
    /\ call \in {PendingSplitTable(cs, sts) :
                    cs \in TableColumnSets, sts \in TablesUpTo(TableStatuses, TableLen)}

CallSplitTable ==
    /\ call.fn = "split_table" /\ ~call.returned
    /\ call' = LET r == split_table(call.columns, call.rows)
               IN  [call EXCEPT !.returned = TRUE, !.raised = r.raised,
                                !.idf = r.idf, !.cdf = r.cdf]
    /\ UNCHANGED <<today, s3_inprogress, s3_complete, s3_exempt, ss, summary, last, ops>>

SpecSplitTable == InitSplitTable /\ [][CallSplitTable]_vars

\* ---------------------------------------------------------- import_status, called
MaxSnap == 1

\* Findings as parse_findings leaves them, on the day of the pull.
FreshFindings ==
    {MkRow(f[1], f[2], "Needs Research", MkDate(3, 0), NoDate, "") :
        f \in {<<"r1", "t1">>, <<"r2", "t1">>, <<"r1", "t2">>}}

\* Rows of ss.tracker_df and ss.extracker_df.
SnapRows ==
    {MkRow(f[1], f[2], st, MkDate(3, 0), NoDate, "") :
        f \in {<<"r1", "t1">>, <<"r2", "t1">>, <<"r1", "t2">>},
        st \in {"In Progress", "Complete", "Exempt", NoneStr}}

PendingImport(aggregation, tdf, edf) ==
    [fn |-> "import_status", returned |-> FALSE, aggregation |-> aggregation,
     tracker_df |-> tdf, extracker_df |-> edf, out |-> <<>>]

InitImport ==
    /\ InitLedger
    /\ call \in {PendingImport(aggregation, tdf, edf) :
                    aggregation \in TablesUpTo(FreshFindings, 2) \ {<<>>},
                    tdf \in TablesUpTo(SnapRows, MaxSnap),
                    edf \in TablesUpTo(SnapRows, MaxSnap)}

CallImport ==
    /\ call.fn = "import_status" /\ ~call.returned
    /\ call' = [call EXCEPT !.returned = TRUE,
                  !.out = import_status(call.aggregation, call.tracker_df, call.extracker_df)]
    /\ UNCHANGED <<today, s3_inprogress, s3_complete, s3_exempt, ss, summary, last, ops>>

SpecImport == InitImport /\ [][CallImport]_vars

\* ------------------------------------------------------- archive_findings, called
\* Complete partitions whose rows were completed on any day, or carry no
\* DateOfSavings, on any day of the calendar.
CompleteRows ==
    {MkRow(rid, "t1", "Complete", MkDate(0, 0), dos, "") :
        rid \in {"r3"}, dos \in Dates \cup {NoDate}}

InitArchive ==
    /\ today \in Dates
    /\ s3_inprogress = <<MkRow("r1", "t1", "In Progress", MkDate(0, 0), NoDate, "")>>
    /\ s3_complete \in TablesUpTo(CompleteRows, MaxRows)
    /\ s3_exempt = <<MkRow("r4", "t1", "Exempt", MkDate(0, 0), NoDate, "")>>
    /\ ss = [tracker_df |-> s3_inprogress, ctracker_df |-> s3_complete,
             extracker_df |-> s3_exempt]
    /\ summary = <<>>
    /\ last = Op("start", "A", <<>>, FALSE, <<>>)
    /\ ops = 0
    /\ call = NoCall

NextArchive == \E s \in Sessions : ArchiveFindings(s)

SpecArchive == InitArchive /\ [][NextArchive]_vars

\* ------------------------------------------------------------ get_finding, called
\* The default of file_modified_recently's minutes (line 223).
StaleMinutes == 1440

\* A cache file: whether os.path.getmtime finds it, how many minutes ago it
\* was modified, and the table it holds.
CacheFiles(table) ==
    {[exists |-> FALSE, age |-> 0, table |-> "none"]}
        \cup {[exists |-> TRUE, age |-> a, table |-> table] :
                a \in {0, StaleMinutes - 1, StaleMinutes, StaleMinutes + 1}}

\* file_modified_recently with a strict comparison.
file_modified_recently_Strict(file) ==
    file.exists /\ file.age < StaleMinutes

\* Lines 238-251: False when the file cannot be read, otherwise whether its
\* age in minutes is at most the window.
file_modified_recently(file) ==
    file.exists /\ file.age <= StaleMinutes

PendingGetFinding(sfile, dfile, force_update, token) ==
    [fn |-> "get_finding", returned |-> FALSE, sfile |-> sfile, dfile |-> dfile,
     force_update |-> force_update, token |-> token, outcome |-> "pending",
     summary_df |-> "none", detailed_df |-> "none",
     sfile_after |-> sfile, dfile_after |-> dfile]

\* Lines 939-963.  token is whether check_token_time() finds a token that has
\* not expired; st.stop() ends the run without a return value.
get_finding(c) ==
    IF file_modified_recently(c.sfile) /\ file_modified_recently(c.dfile)
       /\ ~c.force_update
    THEN [c EXCEPT !.returned = TRUE, !.outcome = "returned",
                   !.summary_df = c.sfile.table, !.detailed_df = c.dfile.table]
    ELSE IF ~c.token \/ ~c.force_update
    THEN [c EXCEPT !.returned = TRUE, !.outcome = "stopped"]
    ELSE [c EXCEPT !.returned = TRUE, !.outcome = "returned",
                   !.summary_df = "pulled summary", !.detailed_df = "pulled detail",
                   !.sfile_after = [exists |-> TRUE, age |-> 0, table |-> "pulled summary"],
                   !.dfile_after = [exists |-> TRUE, age |-> 0, table |-> "pulled detail"]]

InitGetFinding ==
    /\ InitLedger
    /\ call \in {PendingGetFinding(sfile, dfile, force_update, token) :
                    sfile \in CacheFiles("cached summary"),
                    dfile \in CacheFiles("cached detail"),
                    force_update \in BOOLEAN, token \in BOOLEAN}

CallGetFinding ==
    /\ call.fn = "get_finding" /\ ~call.returned
    /\ call' = get_finding(call)
    /\ UNCHANGED <<today, s3_inprogress, s3_complete, s3_exempt, ss, summary, last, ops>>

SpecGetFinding == InitGetFinding /\ [][CallGetFinding]_vars

\* ----------------------------------------------------------- recid_hasher, called
MaxIdLen == 2

\* Strings are sequences of characters.
IdStrings == UNION {[1..n -> {"1", "2"}] : n \in 1..MaxIdLen}

\* estimatedMonthlySavings of the findings hashed, whole dollars held as floats.
SavingsInputs == {1, 2, 12, 21}

DigitChar(d) ==
    CASE d = 0 -> "0" [] d = 1 -> "1" [] d = 2 -> "2" [] d = 3 -> "3" [] d = 4 -> "4"
      [] d = 5 -> "5" [] d = 6 -> "6" [] d = 7 -> "7" [] d = 8 -> "8" [] d = 9 -> "9"

RECURSIVE StrNat(_)
StrNat(n) == IF n < 10 THEN <<DigitChar(n)>> ELSE Append(StrNat(n \div 10), DigitChar(n % 10))

\* str() of a float holding a whole number: "12.0".
StrFloat(n) == StrNat(n) \o <<".", "0">>

\* hashlib.sha256(...).hexdigest(), taken as free of collisions: the digest
\* stands for the string it was computed from.
Sha256Hex(str) == <<"sha256", str>>

\* Lines 794-795.
recid_hasher(value1, value2, value3) ==
    Sha256Hex(value1 \o value2 \o StrFloat(value3))

HashTriples ==
    {[account |-> a, resourceId |-> r, savings |-> v] :
        a \in IdStrings, r \in IdStrings, v \in SavingsInputs}

InitHash ==
    /\ InitLedger
    /\ call \in {[fn |-> "recid_hasher", returned |-> FALSE, a |-> a, b |-> b,
                  ida |-> <<>>, idb |-> <<>>] : a \in HashTriples, b \in HashTriples}

CallHash ==
    /\ call.fn = "recid_hasher" /\ ~call.returned
    /\ call' = [call EXCEPT !.returned = TRUE,
                  !.ida = recid_hasher(call.a.account, call.a.resourceId, call.a.savings),
                  !.idb = recid_hasher(call.b.account, call.b.resourceId, call.b.savings)]
    /\ UNCHANGED <<today, s3_inprogress, s3_complete, s3_exempt, ss, summary, last, ops>>

SpecHash == InitHash /\ [][CallHash]_vars

\* ------------------------------------------- aggregate_summary_parallel, called
\* chunk_size of line 864.
ChunkSize == 250

MaxChunks == 2

\* Lengths of the list of findings: none, one, and around each multiple of
\* the chunk size.
FindingCounts ==
    {0, 1} \cup {c * ChunkSize + d : c \in 1..MaxChunks, d \in {-1, 0, 1}}

\* The k-th raw finding of a pull.  Every third one is a Savings Plan of the
\* Cost Optimization Hub, which has no resourceId; bad is the position of a
\* finding whose estimatedMonthlySavings is not a number, rs the position of
\* a Rightsize finding, of resource type rstype (0: no such finding).
RawItem(k, bad, rs, rstype) ==
    [resourceId |-> IF k % 3 = 0 THEN NoneStr ELSE "i-" \o ToString(k),
     RecommendationId |-> "rec-" \o ToString(k),
     estimatedMonthlySavings |-> IF k = bad THEN "n/a" ELSE "12.5",
     actionType |-> IF k = rs THEN "Rightsize" ELSE "Stop",
     currentResourceType |-> rstype]

RawFindings(n, bad, rs, rstype) == [k \in 1..n |-> RawItem(k, bad, rs, rstype)]

\* float(item.get("estimatedMonthlySavings")) of line 141: ValueError for
\* a string that is not a number.  The value is held in tenths.
FloatRaises(v) == v \notin {"12.5", "0.0"}

Float(v) == CASE v = "12.5" -> 125 [] v = "0.0" -> 0

\* Lines 116-125.
ResourceIdOf(item) ==
    IF item.resourceId = NoneStr THEN item.RecommendationId ELSE item.resourceId

\* Lines 143-181: a Rightsize finding of an Ec2Instance asks
\* ec2_client.describe_instance_types, whose failure is an exception.
NeedsLookup(item) ==
    item.actionType = "Rightsize" /\ item.currentResourceType = "Ec2Instance"

ItemRaises(item, lookup_ok) ==
    FloatRaises(item.estimatedMonthlySavings) \/ (NeedsLookup(item) /\ ~lookup_ok)

\* Lines 115-190 for one item that raises nothing.
ParseItem(item, now) ==
    [ResourceId |-> ResourceIdOf(item),
     RecommendationId |-> item.RecommendationId,
     FinOpsStatus |-> "Needs Research",
     FinOpsLastModified |-> now,
     Comments |-> IF item.actionType # "Rightsize" THEN ""
                  ELSE IF item.currentResourceType = "Ec2Instance"
                  THEN "from(cores/ram)->to(cores/ram)"
                  ELSE "from->to",
     estimatedMonthlySavings |-> Float(item.estimatedMonthlySavings),
     SavingsType |-> item.actionType]

\* parse_findings_chunk: parse_findings([], chunk); an exception in one item
\* ends the call.
parse_findings_chunk(chunk, lookup_ok, now) ==
    IF \E k \in DOMAIN chunk : ItemRaises(chunk[k], lookup_ok)
    THEN [raised |-> TRUE, aggs |-> <<>>]
    ELSE [raised |-> FALSE, aggs |-> [k \in DOMAIN chunk |-> ParseItem(chunk[k], now)]]

\* A chunk that stops one short: findings[i : i + chunk_size - 1].
ChunkAt_OneShort(findings, i) ==
    SubSeq(findings, i + 1,
           IF i + ChunkSize - 1 < Len(findings) THEN i + ChunkSize - 1 ELSE Len(findings))

\* findings[i : i + chunk_size] of line 866.
ChunkAt(findings, i) ==
    SubSeq(findings, i + 1,
           IF i + ChunkSize < Len(findings) THEN i + ChunkSize ELSE Len(findings))

\* range(0, len(findings), chunk_size), as the number of chunks.
ChunkCount(n) == (n + ChunkSize - 1) \div ChunkSize

RECURSIVE Flatten(_, _)
\* Line 876: the results of the chunks from the c-th on, one after another.
Flatten(results, c) ==
    IF c > Len(results) THEN <<>> ELSE results[c].aggs \o Flatten(results, c + 1)

\* Lines 861-883.  pool.map returns the chunks' results in the order of the
\* chunks and re-raises an exception of a worker.
aggregate_summary_parallel(findings, status_import, tracker_df, extracker_df, lookup_ok, now) ==
    LET results == [c \in 1..ChunkCount(Len(findings)) |->
                      parse_findings_chunk(ChunkAt(findings, (c - 1) * ChunkSize),
                                           lookup_ok, now)]
    IN  IF \E c \in DOMAIN results : results[c].raised
        THEN [raised |-> TRUE, aggregation |-> <<>>]
        ELSE [raised |-> FALSE,
              aggregation |-> IF status_import
                              THEN import_status(Flatten(results, 1), tracker_df, extracker_df)
                              ELSE Flatten(results, 1)]

\* The snapshots import_status reads: the first finding is being worked on.
ParseTracker == <<MkRow("i-1", "Stop", "In Progress", MkDate(3, 0), NoDate, "")>>

InitParse ==
    /\ InitLedger
    /\ call \in {[fn |-> "aggregate_summary_parallel", returned |-> FALSE,
                  findings |-> RawFindings(n, bad, rs, rstype),
                  status_import |-> si, lookup_ok |-> ok,
                  raised |-> FALSE, aggregation |-> <<>>] :
                    n \in FindingCounts, bad \in {0, 1, ChunkSize + 1},
                    rs \in {0, 2, ChunkSize}, rstype \in {"Ec2Instance", "EbsVolume"},
                    si \in BOOLEAN, ok \in BOOLEAN}

CallParse ==
    /\ call.fn = "aggregate_summary_parallel" /\ ~call.returned
    /\ LET r == aggregate_summary_parallel(call.findings, call.status_import,
                                           ParseTracker, <<>>, call.lookup_ok, today)
       IN  call' = [call EXCEPT !.returned = TRUE, !.raised = r.raised,
                                !.aggregation = r.aggregation]
    /\ UNCHANGED <<today, s3_inprogress, s3_complete, s3_exempt, ss, summary, last, ops>>

SpecParse == InitParse /\ [][CallParse]_vars

\* ------------------------------------------------------------ calcost_ebs, called
MaxSize == 3

\* Prices are held in thousandths of a dollar: 0.10 is 100.
VolumeTypes == {"gp2", "gp3", "st1", "sc1", "io1", "io2", "standard", "gp1"}

IopsInputs == {0, 2999, 3000, 3001, 4000, 32000, 32001, 64000, 64001}

ThroughputInputs == {0, 125, 126, 150}

\* The size argument: a Python int, or a value of another type.
SizeInputs ==
    {[type |-> "int", value |-> v] : v \in (-1..MaxSize) \cup {100}}
        \cup {[type |-> t, value |-> 1] : t \in {"float", "str"}}

\* The validation with zero let through.
SizeError_ZeroAllowed(size) ==
    IF size.type # "int" THEN "TypeError"
    ELSE IF size.value < 0 THEN "ValueError"
    ELSE "none"

\* Lines 705-708.
SizeError(size) ==
    IF size.type # "int" THEN "TypeError"
    ELSE IF size.value <= 0 THEN "ValueError"
    ELSE "none"

\* The gp3 price without the charge for throughput.
Gp3Cost_NoThroughput(iops, throughput, size) ==
    80 * size + (IF iops > 3000 THEN (iops - 3000) * 5 ELSE 0)

\* Lines 713-717.
Gp3Cost(iops, throughput, size) ==
    80 * size
        + (IF iops > 3000 THEN (iops - 3000) * 5 ELSE 0)
        + (IF throughput > 125 THEN (throughput - 125) * 40 ELSE 0)

\* The io2 charge for IOPS with the first tier left out above 32000.
Io2IopsCost_TierDropped(iops) ==
    IF iops > 64000 THEN 32000 * 46 + (iops - 64000) * 32
    ELSE IF iops > 32000 THEN (iops - 32000) * 46
    ELSE iops * 65

\* Lines 726-732.
Io2IopsCost(iops) ==
    IF iops > 64000 THEN 32000 * 65 + 32000 * 46 + (iops - 64000) * 32
    ELSE IF iops > 32000 THEN 32000 * 65 + (iops - 32000) * 46
    ELSE iops * 65

\* Lines 710-736 for a valid size.
VolumeCost(vtype, iops, throughput, size) ==
    CASE vtype = "gp2" -> 100 * size
      [] vtype = "gp3" -> Gp3Cost(iops, throughput, size)
      [] vtype = "st1" -> 45 * size
      [] vtype = "sc1" -> 15 * size
      [] vtype = "io1" -> 125 * size + 65 * iops
      [] vtype = "io2" -> 125 * size + Io2IopsCost(iops)
      [] vtype = "standard" -> 50 * size
      [] OTHER -> 1000000 * 1000

\* Python's None where a number is expected (volume.get("Iops") of a volume
\* that reports no such key).
NoValue == -1

\* Lines 713-732 for a valid size: a comparison or a product with None raises
\* TypeError in the branches that read iops or throughput.
NoneTypeError(vtype, iops, throughput) ==
    CASE vtype = "gp3" -> iops = NoValue \/ throughput = NoValue
      [] vtype = "io1" -> iops = NoValue
      [] vtype = "io2" -> iops = NoValue
      [] OTHER -> FALSE

\* calcost_ebs: the exception it raises, or the cost it returns.
calcost_ebs(vtype, iops, throughput, size) ==
    IF SizeError(size) # "none"
    THEN [raised |-> SizeError(size), cost |-> <<>>]
    ELSE IF NoneTypeError(vtype, iops, throughput)
    THEN [raised |-> "TypeError", cost |-> <<>>]
    ELSE [raised |-> "none", cost |-> <<VolumeCost(vtype, iops, throughput, size.value)>>]

InitCost ==
    /\ InitLedger
    /\ call \in {[fn |-> "calcost_ebs", returned |-> FALSE, vtype |-> vtype, iops |-> iops,
                  throughput |-> throughput, size |-> size,
                  raised |-> "none", cost |-> <<>>] :
                    vtype \in VolumeTypes, iops \in IopsInputs,
                    throughput \in ThroughputInputs, size \in SizeInputs}

CallCost ==
    /\ call.fn = "calcost_ebs" /\ ~call.returned
    /\ LET r == calcost_ebs(call.vtype, call.iops, call.throughput, call.size)
       IN  call' = [call EXCEPT !.returned = TRUE, !.raised = r.raised, !.cost = r.cost]
    /\ UNCHANGED <<today, s3_inprogress, s3_complete, s3_exempt, ss, summary, last, ops>>

SpecCost == InitCost /\ [][CallCost]_vars

\* calcost_ebs as find_unattached_ebs calls it (lines 759-764): Iops and
\* Throughput are None for a volume that does not report them.
OptionalIops == {NoValue, 0, 3001}

OptionalThroughput == {NoValue, 125, 150}

InitCostAbsent ==
    /\ InitLedger
    /\ call \in {[fn |-> "calcost_ebs", returned |-> FALSE, vtype |-> vtype, iops |-> iops,
                  throughput |-> throughput, size |-> [type |-> "int", value |-> v],
                  raised |-> "none", cost |-> <<>>] :
                    vtype \in VolumeTypes, iops \in OptionalIops,
                    throughput \in OptionalThroughput, v \in 1..MaxSize}

SpecCostAbsent == InitCostAbsent /\ [][CallCost]_vars

\* --------------- modify_complete_tracker and modify_exempt_tracker, called on a
\* partition another session has saved to since the page was rendered
SaveDates == {MkDate(1, 0), MkDate(2, 0), MkDate(3, 0)}

\* The partition as the store holds it: every row stamped by a save.
StoredPartitions ==
    {<<MkRow("r3", "t1", "Complete", d, d, cm)>> : d \in SaveDates, cm \in {"", "theirs"}}
    \cup {<<MkRow("r3", "t1", "Complete", MkDate(1, 0), MkDate(1, 0), ""),
            MkRow("r1", "t1", "Complete", d, d, cm)>> : d \in SaveDates, cm \in {"", "theirs"}}

\* The copies of it a session may hold: each row as it was when the page was
\* rendered, stamped no later than the stored row.
SessionCopies(stored) ==
    {sdf \in [DOMAIN stored -> {MkRow(r.ResourceId, r.SavingsType, r.FinOpsStatus, d,
                                      r.DateOfSavings, cm) :
                                    r \in SeqToSet(stored), d \in SaveDates, cm \in {"", "theirs"}}] :
        \A k \in DOMAIN stored :
            /\ RowKeyOf(sdf[k]) = RowKeyOf(stored[k])
            /\ sdf[k].FinOpsLastModified <= stored[k].FinOpsLastModified
            /\ (sdf[k].FinOpsLastModified = stored[k].FinOpsLastModified => sdf[k] = stored[k])
            /\ (sdf[k] # stored[k] => sdf[k].Comments = "")}

PendingSave(fn, stored, sdf, edits, now) ==
    [fn |-> fn, returned |-> FALSE, stored |-> stored, sdf |-> sdf, edits |-> edits,
     now |-> now, raised |-> FALSE, df |-> <<>>, unwritten |-> <<>>]

InitSave ==
    /\ InitLedger
    /\ \E stored \in StoredPartitions :
         call \in {PendingSave(fn, stored, sdf, edits, now) :
                     fn \in {"modify_complete", "modify_exempt"},
                     sdf \in SessionCopies(stored),
                     edits \in EditSeqs(Len(stored)), now \in SaveDates}

CallSave ==
    /\ call.fn \in {"modify_complete", "modify_exempt"} /\ ~call.returned
    /\ LET r == IF call.fn = "modify_complete"
                THEN modify_complete_result(call.stored, call.sdf, call.edits, call.now)
                ELSE modify_exempt_result(call.stored, call.sdf, call.edits, call.now)
       IN  call' = [call EXCEPT !.returned = TRUE, !.raised = r.raised, !.df = r.df,
                                !.unwritten = r.unwritten]
    /\ UNCHANGED <<today, s3_inprogress, s3_complete, s3_exempt, ss, summary, last, ops>>

SpecSave == InitSave /\ [][CallSave]_vars

\* ------------- the saves of two sessions, one download or upload of a blob at a time
\* A save in progress: the handler, edited_rows, the session's frame of the
\* partition, the statement it is at, and its working frames s3_i_df, s3_c_df
\* and s3_ex_df.
SaveProc(handler, edits, sdf) ==
    [handler |-> handler, edits |-> edits, sdf |-> sdf,
     pc |-> CASE handler = "modify_inprogress" -> "read_i"
              [] handler = "modify_complete" -> "read_c"
              [] handler = "modify_exempt" -> "read_e"
              [] OTHER -> "idle",
     i |-> <<>>, c |-> <<>>, e |-> <<>>, unwritten |-> <<>>]

\* The ledger the two sessions have rendered: two rows in each partition.
LedgerOfTwo ==
    [i |-> <<MkRow("r1", "t1", "In Progress", MkDate(3, 0), NoDate, ""),
             MkRow("r2", "t1", "In Progress", MkDate(3, 0), NoDate, "")>>,
     c |-> <<MkRow("r3", "t1", "Complete", MkDate(3, 0), MkDate(3, 0), ""),
             MkRow("r5", "t1", "Complete", MkDate(3, 0), MkDate(3, 0), "")>>,
     e |-> <<MkRow("r4", "t1", "Exempt", MkDate(3, 0), NoDate, ""),
             MkRow("r6", "t1", "Exempt", MkDate(3, 0), NoDate, "")>>]

\* What a session is about to save: one edited row through one of the three
\* handlers, or nothing.
PendingSaves ==
    {SaveProc(h, <<[idx |-> l, cols |-> cols]>>,
              CASE h = "modify_inprogress" -> LedgerOfTwo.i
                [] h = "modify_complete" -> LedgerOfTwo.c
                [] h = "modify_exempt" -> LedgerOfTwo.e) :
        h \in {"modify_inprogress", "modify_complete", "modify_exempt"},
        l \in 0..1, cols \in EditCols}
    \cup {SaveProc("none", <<>>, <<>>)}

InitSaves ==
    /\ today = MkDate(3, 0)
    /\ s3_inprogress = LedgerOfTwo.i
    /\ s3_complete = LedgerOfTwo.c
    /\ s3_exempt = LedgerOfTwo.e
    /\ ss = [tracker_df |-> s3_inprogress, ctracker_df |-> s3_complete,
             extracker_df |-> s3_exempt]
    /\ summary = <<>>
    /\ last = Op("start", "A", <<>>, FALSE, <<>>)
    /\ ops = 0
    /\ call \in {[fn |-> "saves", procs |-> procs] : procs \in [Sessions -> PendingSaves]}

\* The handler's statements between its last download and its first upload.
Computed(p) ==
    CASE p.handler = "modify_inprogress" ->
            LET r == modify_inprogress_result(p.i, p.c, p.e, p.sdf, p.edits, today)
            IN  IF r.raised THEN [p EXCEPT !.pc = "raised"]
                ELSE [p EXCEPT !.pc = "write_i", !.i = r.i, !.c = r.c, !.e = r.e]
      [] p.handler = "modify_complete" ->
            LET r == modify_complete_result(p.c, p.sdf, p.edits, today)
            IN  IF r.raised THEN [p EXCEPT !.pc = "raised"]
                ELSE [p EXCEPT !.pc = "write_c", !.c = r.df, !.unwritten = r.unwritten]
      [] p.handler = "modify_exempt" ->
            LET r == modify_exempt_result(p.e, p.sdf, p.edits, today)
            IN  IF r.raised THEN [p EXCEPT !.pc = "raised"]
                ELSE [p EXCEPT !.pc = "write_e", !.e = r.df, !.unwritten = r.unwritten]

\* One ingest_tracker(..., s3=True) of a save (lines 386-388, 430, 472); after
\* the last one the handler runs up to its first write_tracker.
ReadBlob(s) ==
    /\ call.fn = "saves"
    /\ LET p == call.procs[s]
       IN  /\ p.pc \in {"read_i", "read_c", "read_e"}
           /\ LET q == CASE p.pc = "read_i" -> [p EXCEPT !.i = s3_inprogress, !.pc = "read_c"]
                         [] p.pc = "read_c" ->
                              IF p.handler = "modify_inprogress"
                              THEN [p EXCEPT !.c = s3_complete, !.pc = "read_e"]
                              ELSE Computed([p EXCEPT !.c = s3_complete])
                         [] p.pc = "read_e" -> Computed([p EXCEPT !.e = s3_exempt])
               IN  call' = [call EXCEPT !.procs[s] = q]
    /\ UNCHANGED <<today, s3_inprogress, s3_complete, s3_exempt, ss, summary, last, ops>>

\* One write_tracker(..., s3=True) of a save (lines 415-417, 458, 500).
WriteBlob(s) ==
    /\ call.fn = "saves"
    /\ LET p == call.procs[s]
       IN  /\ p.pc \in {"write_i", "write_c", "write_e"}
           /\ s3_inprogress' = IF p.pc = "write_i" THEN p.i ELSE s3_inprogress
           /\ s3_complete' = IF p.pc = "write_c" THEN p.c ELSE s3_complete
           /\ s3_exempt' = IF p.pc = "write_e" THEN p.e ELSE s3_exempt
           /\ ss' = IF s # "A" THEN ss
                    ELSE CASE p.pc = "write_i" -> [ss EXCEPT !.tracker_df = p.i]
                           [] p.pc = "write_c" -> [ss EXCEPT !.ctracker_df = p.c]
                           [] p.pc = "write_e" -> [ss EXCEPT !.extracker_df = p.e]
           /\ call' = [call EXCEPT !.procs[s].pc =
                          CASE p.pc = "write_i" -> "write_c"
                            [] p.pc = "write_c" ->
                                 IF p.handler = "modify_inprogress" THEN "write_e" ELSE "done"
                            [] p.pc = "write_e" -> "done"]
    /\ UNCHANGED <<today, summary, last, ops>>

\* The run of modify_inprogress_tracker ends between two of its uploads: the
\* upload raises, or the server process is stopped.
StopSave(s) ==
    /\ call.fn = "saves"
    /\ call.procs[s].handler = "modify_inprogress"
    /\ call.procs[s].pc \in {"write_c", "write_e"}
    /\ call' = [call EXCEPT !.procs[s].pc = "stopped"]
    /\ UNCHANGED <<today, s3_inprogress, s3_complete, s3_exempt, ss, summary, last, ops>>

NextSaves ==
    \/ \E s \in Sessions : ReadBlob(s)
    \/ \E s \in Sessions : WriteBlob(s)
    \/ \E s \in Sessions : StopSave(s)

SpecSaves == InitSaves /\ [][NextSaves]_vars

\* ================================================================== claims
ModifyOps == {"modify_inprogress", "modify_complete", "modify_exempt"}

\* The partition a modify handler edits, among the three given.
PartOf(name, i, c, e) ==
    CASE name = "modify_inprogress" -> i
      [] name = "modify_complete" -> c
      [] name = "modify_exempt" -> e

\* The row the session submits for the k-th entry of edits: its copy of the
\* row with the edited columns, stamped with the day of the save.
Submitted(sdf, edits, k, now) ==
    [ApplyEdit(sdf[edits[k].idx + 1], edits[k].cols) EXCEPT !.FinOpsLastModified = now]

\* Where the row labelled l stands after the rows labelled gone are removed.
KeptPos(l, gone) == l + 1 - Cardinality({g \in gone : g < l})

\* The labels a save removes from the partition it edits: the rows set to
\* DeleteMe and, in InProgress, the rows moved to Complete or Exempt.
GoneLabels(name, sdf, edits, now) ==
    {edits[k].idx : k \in {j \in DOMAIN edits :
        LET st == Submitted(sdf, edits, j, now).FinOpsStatus
        IN  \/ st = "DeleteMe"
            \/ name = "modify_inprogress" /\ Lower(st) \in {"complete", "exempt"}}}

\* C1 (as claimed): in each of the three partitions the submitted row replaces
\* the persisted row exactly when its FinOpsLastModified is not older than the
\* persisted row's, or the persisted row has none; otherwise the persisted row
\* stays as it was.
C1_OverwriteIffNotOlder ==
    [][\A name \in ModifyOps :
        (last'.op = name /\ ~last'.raised) =>
            LET stored == PartOf(name, s3_inprogress, s3_complete, s3_exempt)
                after == PartOf(name, s3_inprogress', s3_complete', s3_exempt')
                sdf == SessionFrame(last'.ses, PartOf(name, ss.tracker_df, ss.ctracker_df,
                                                      ss.extracker_df), stored)
                gone == GoneLabels(name, sdf, last'.edits, today)
            IN  \A k \in DOMAIN last'.edits :
                  LET l == last'.edits[k].idx
                      row == Submitted(sdf, last'.edits, k, today)
                  IN  (l < Len(stored) /\ l \notin gone) =>
                        /\ KeptPos(l, gone) \in DOMAIN after
                        /\ after[KeptPos(l, gone)] =
                              IF \/ stored[l + 1].FinOpsLastModified = NoDate
                                 \/ row.FinOpsLastModified >= stored[l + 1].FinOpsLastModified
                              THEN row
                              ELSE stored[l + 1]]_vars

\* C2 (as claimed): an edit older than the persisted row leaves that row
\* unchanged and its index is in the list the handler returns; the index of
\* an edit that is not older is not in the list; in all three handlers.
C2_StaleEditReported ==
    [][\A name \in ModifyOps :
        (last'.op = name /\ ~last'.raised) =>
            LET stored == PartOf(name, s3_inprogress, s3_complete, s3_exempt)
                after == PartOf(name, s3_inprogress', s3_complete', s3_exempt')
                sdf == SessionFrame(last'.ses, PartOf(name, ss.tracker_df, ss.ctracker_df,
                                                      ss.extracker_df), stored)
                gone == GoneLabels(name, sdf, last'.edits, today)
            IN  \A k \in DOMAIN last'.edits :
                  LET l == last'.edits[k].idx
                      row == Submitted(sdf, last'.edits, k, today)
                      stale == /\ stored[l + 1].FinOpsLastModified # NoDate
                               /\ row.FinOpsLastModified < stored[l + 1].FinOpsLastModified
                  IN  (l < Len(stored) /\ row.FinOpsStatus # "DeleteMe") =>
                        IF stale
                        THEN /\ l \in SeqToSet(last'.unwritten)
                             /\ KeptPos(l, gone) \in DOMAIN after
                             /\ after[KeptPos(l, gone)] = stored[l + 1]
                        ELSE l \notin SeqToSet(last'.unwritten)]_vars

C4_PartitionReflectsStatus ==
    /\ \A k \in DOMAIN s3_complete : Lower(s3_complete[k].FinOpsStatus) = "complete"
    /\ \A k \in DOMAIN s3_exempt : Lower(s3_exempt[k].FinOpsStatus) = "exempt"
    /\ \A k \in DOMAIN s3_inprogress :
          Lower(s3_inprogress[k].FinOpsStatus) \notin {"complete", "exempt"}

\* C5 (as claimed): no (ResourceId, Savings Type) pair is held by two records
\* of the ledger.
C5_PairHeldOnce ==
    LET all == s3_inprogress \o s3_complete \o s3_exempt
    IN  \A j, k \in DOMAIN all :
          (all[j].ResourceId = all[k].ResourceId /\ all[j].SavingsType = all[k].SavingsType)
              => j = k

CompletedAt(df) ==
    {k \in DOMAIN df : Lower(df[k].FinOpsStatus) \in {"complete", "exempt"}}

\* A row with every string cell that reads "nan" or "NaN" made absent.
Absent(v) == IF v \in {"nan", "NaN"} THEN NoneStr ELSE v

AbsentRow(r) ==
    MkRow(Absent(r.ResourceId), Absent(r.SavingsType), Absent(r.FinOpsStatus),
          r.FinOpsLastModified, r.DateOfSavings, Absent(r.Comments))

\* C7 (as claimed): whenever the split returns, idf holds the rows of df
\* whose status is not complete or exempt, cdf the others, every row with its
\* field values unchanged and in its original order.
C7_SplitKeepsRows ==
    (call.fn = "split" /\ call.returned /\ ~call.raised) =>
        /\ call.cdf = SelectRows(call.df, CompletedAt(call.df))
        /\ call.idf = SelectRows(call.df, DOMAIN call.df \ CompletedAt(call.df))

\* C7 (amended): the split raises exactly when some status cell reads "nan"
\* or "NaN"; otherwise idf holds the rows of df whose status is not complete
\* or exempt in any case of the letters, cdf the others, in their original
\* order, every row with its field values unchanged except that a string
\* cell reading "nan" or "NaN" has become absent.
C7_SplitKeepsNormalizedRows ==
    (call.fn = "split" /\ call.returned) =>
        LET nd == [k \in DOMAIN call.df |-> AbsentRow(call.df[k])]
        IN  /\ call.raised <=> \E k \in DOMAIN call.df : call.df[k].FinOpsStatus \in {"nan", "NaN"}
            /\ ~call.raised =>
                 /\ call.cdf = SelectRows(nd, CompletedAt(call.df))
                 /\ call.idf = SelectRows(nd, DOMAIN call.df \ CompletedAt(call.df))
                 /\ CompletedAt(call.df) = {} => call.idf = nd /\ call.cdf = <<>>

\* C7's case: a table with a "nan" comment, a COMPLETE row and a row in
\* progress has been split.
C7_Witness ==
    /\ call.fn = "split" /\ call.returned /\ ~call.raised
    /\ \E k \in DOMAIN call.df : call.df[k].Comments = "nan"
    /\ \E k \in DOMAIN call.cdf : call.cdf[k].FinOpsStatus = "COMPLETE"
    /\ \E k \in DOMAIN call.idf : call.idf[k].FinOpsStatus = "In Progress"

\* C8: splitting the completed part again returns it whole with an empty
\* in-progress part, and splitting the in-progress part again returns it
\* whole with an empty completed part; neither split raises.
C8_ResplitIdempotent ==
    (call.fn = "split" /\ call.returned /\ ~call.raised) =>
        /\ ~SplitRaises(call.cdf) /\ ~SplitRaises(call.idf)
        /\ split_inprogress_complete(call.cdf) = [idf |-> <<>>, cdf |-> call.cdf]
        /\ split_inprogress_complete(call.idf) = [idf |-> call.idf, cdf |-> <<>>]

\* C8's case: the split returned two parts that are not empty, from a table
\* with a "nan" cell.
C8_Witness ==
    /\ call.fn = "split" /\ call.returned /\ ~call.raised
    /\ call.idf # <<>> /\ call.cdf # <<>>
    /\ \E k \in DOMAIN call.df : call.df[k].Comments = "nan"

\* The records of the snapshots whose status a finding takes: same
\* ResourceId, same Savings Type, a status that is not terminal.
Importable(merged, f) ==
    {k \in DOMAIN merged :
        /\ merged[k].ResourceId = f.ResourceId
        /\ merged[k].SavingsType = f.SavingsType
        /\ merged[k].FinOpsStatus # NoneStr
        /\ Lower(merged[k].FinOpsStatus) \notin
              {"needs research", "complete", "completed", "archived", "archive"}}

\* C9: import_status gives a finding the status of a record of the
\* in-progress or exempt snapshot that has its ResourceId and Savings Type and
\* a status that is not terminal; a finding with no such record is returned
\* as it was pulled.
C9_ImportStatusIffMatch ==
    (call.fn = "import_status" /\ call.returned) =>
        LET merged == call.tracker_df \o call.extracker_df
        IN  /\ Len(call.out) = Len(call.aggregation)
            /\ \A a \in DOMAIN call.aggregation :
                 LET m == Importable(merged, call.aggregation[a])
                 IN  IF m = {}
                     THEN call.out[a] = call.aggregation[a]
                     ELSE call.out[a].FinOpsStatus \in {merged[k].FinOpsStatus : k \in m}

\* C9's case: one finding took "In Progress" from its record, another with a
\* Complete record kept the status it was pulled with.
C9_Witness ==
    /\ call.fn = "import_status" /\ call.returned
    /\ \E a, b \in DOMAIN call.out :
         /\ call.out[a].FinOpsStatus = "In Progress"
         /\ call.out[b].FinOpsStatus = "Needs Research"
         /\ \E k \in DOMAIN call.tracker_df :
              /\ call.tracker_df[k].FinOpsStatus = "In Progress"
              /\ call.tracker_df[k].ResourceId = call.out[a].ResourceId
         /\ \E k \in DOMAIN call.extracker_df :
              /\ call.extracker_df[k].FinOpsStatus = "Complete"
              /\ call.extracker_df[k].ResourceId = call.out[b].ResourceId
              /\ call.extracker_df[k].SavingsType = call.out[b].SavingsType

\* C10: archive_findings leaves in Complete exactly the records that have no
\* DateOfSavings or one not earlier than the day two calendar years before
\* today, unchanged and in order, and leaves InProgress and Exempt unchanged.
C10_ArchiveOlderThanTwoYears ==
    [][last'.op = "archive" =>
        /\ s3_complete' = SelectRows(s3_complete,
              {k \in DOMAIN s3_complete :
                  \/ s3_complete[k].DateOfSavings = NoDate
                  \/ s3_complete[k].DateOfSavings >= YearsBefore(today, 2)})
        /\ s3_inprogress' = s3_inprogress
        /\ s3_exempt' = s3_exempt]_vars

\* C10's case: the archive dropped a record and kept one dated exactly two
\* years before today.
C10_Witness ==
    /\ last.op = "archive"
    /\ last.shown # <<>>
    /\ \E k \in DOMAIN s3_complete : s3_complete[k].DateOfSavings = YearsBefore(today, 2)

\* The columns of a tracker row.
RowColumns ==
    {"ResourceId", "SavingsType", "FinOpsStatus", "FinOpsLastModified",
     "DateOfSavings", "Comments"}

\* C11 (as claimed): in the row a saved edit addresses, and that stays in its
\* partition, only the columns named in the edit, FinOpsLastModified and
\* DateOfSavings change: every other column keeps the value the store held
\* at the moment of the save; and every stored row that was not edited is
\* unchanged.
C11_OnlyEditedColumnsChange ==
    [][\A name \in ModifyOps :
        (last'.op = name /\ ~last'.raised) =>
            LET stored == PartOf(name, s3_inprogress, s3_complete, s3_exempt)
                after == PartOf(name, s3_inprogress', s3_complete', s3_exempt')
                sdf == SessionFrame(last'.ses, PartOf(name, ss.tracker_df, ss.ctracker_df,
                                                      ss.extracker_df), stored)
                E == last'.edits
                gone == GoneLabels(name, sdf, E, today)
            IN  \A l \in 0..(Len(stored) - 1) : l \notin gone =>
                  /\ KeptPos(l, gone) \in DOMAIN after
                  /\ \A col \in RowColumns :
                       \/ after[KeptPos(l, gone)][col] = stored[l + 1][col]
                       \/ \E k \in DOMAIN E :
                            /\ E[k].idx = l
                            /\ col \in DOMAIN E[k].cols
                                   \cup {"FinOpsLastModified", "DateOfSavings"}]_vars

\* C12: a pull changes no partition of the ledger; add_to_tracker puts at
\* the end of InProgress exactly the findings whose MoveToTracker is ticked,
\* after the rows of the tracker frame it saves, removes exactly those
\* findings from the summary, and leaves Complete and Exempt unchanged.
C12_FindingsEnterOnlyWhenFlagged ==
    [][/\ last'.op = "pull" => ledger' = ledger
       /\ last'.op = "add_to_tracker" =>
            LET E == last'.edits
                F == {E[k].idx + 1 : k \in {j \in DOMAIN E : E[j].MoveToTracker}}
                moved == SelectRows(summary, F)
            IN  /\ summary' = SelectRows(summary, DOMAIN summary \ F)
                /\ \/ s3_inprogress' = s3_inprogress \o moved
                   \/ s3_inprogress' = ss.tracker_df \o moved
                /\ s3_complete' = s3_complete
                /\ s3_exempt' = s3_exempt]_vars

\* C12's case: add_to_tracker has moved the ticked finding of a pull of two
\* to the end of InProgress, and the other finding is still in the summary.
C12_Witness ==
    /\ last.op = "add_to_tracker"
    /\ \E k \in DOMAIN last.edits : last.edits[k].MoveToTracker
    /\ Len(summary) = 1
    /\ s3_inprogress # <<>>
    /\ s3_inprogress[Len(s3_inprogress)].ResourceId = "r2"
    /\ s3_inprogress[Len(s3_inprogress)].FinOpsStatus = "Needs Research"

\* A cache file was modified within the staleness window.
WithinWindow(file) == file.exists /\ file.age <= 1440

\* The call re-derived both tables and rewrote both caches.
Regenerated(c) ==
    /\ c.outcome = "returned"
    /\ c.summary_df = "pulled summary" /\ c.detailed_df = "pulled detail"
    /\ c.sfile_after = [exists |-> TRUE, age |-> 0, table |-> "pulled summary"]
    /\ c.dfile_after = [exists |-> TRUE, age |-> 0, table |-> "pulled detail"]

\* The call returned what the caches held and left them as they were.
ServedFromCache(c) ==
    /\ c.outcome = "returned"
    /\ c.summary_df = c.sfile.table /\ c.detailed_df = c.dfile.table
    /\ c.sfile_after = c.sfile /\ c.dfile_after = c.dfile

\* C13 (as claimed): get_finding returns the cached tables when both caches
\* are within the window and regeneration is not forced, and in every other
\* case re-derives both tables and rewrites both caches before returning them.
C13_RegeneratesWhenStale ==
    (call.fn = "get_finding" /\ call.returned) =>
        IF WithinWindow(call.sfile) /\ WithinWindow(call.dfile) /\ ~call.force_update
        THEN ServedFromCache(call)
        ELSE Regenerated(call)

\* C13 (amended): get_finding returns the cached tables exactly when both
\* caches are within the window and regeneration is not forced; it re-derives
\* both tables and rewrites both caches exactly when regeneration is forced
\* and the access token has not expired; in every other case it stops
\* without returning tables and leaves both caches as they were.
C13_RegeneratesOnlyWhenForced ==
    (call.fn = "get_finding" /\ call.returned) =>
        IF WithinWindow(call.sfile) /\ WithinWindow(call.dfile) /\ ~call.force_update
        THEN ServedFromCache(call)
        ELSE IF call.force_update /\ call.token
        THEN Regenerated(call)
        ELSE /\ call.outcome = "stopped"
             /\ call.summary_df = "none" /\ call.detailed_df = "none"
             /\ call.sfile_after = call.sfile /\ call.dfile_after = call.dfile

\* C13's case: both caches exactly 1440 minutes old were served without a
\* forced regeneration.
C13_Witness ==
    /\ call.fn = "get_finding" /\ call.returned
    /\ call.sfile.exists /\ call.sfile.age = 1440
    /\ call.dfile.exists /\ call.dfile.age = 1440
    /\ ~call.force_update
    /\ call.summary_df = "cached summary" /\ call.detailed_df = "cached detail"

\* C14 (as claimed): with a digest free of collisions, two findings get the
\* same RecommendationId exactly when their (account, resource id, savings)
\* triples are equal.
C14_IdDeterminesTriple ==
    (call.fn = "recid_hasher" /\ call.returned) =>
        (call.ida = call.idb <=> call.a = call.b)

\* The positions of the findings whose savings are not a number.
BadAt(findings) ==
    {k \in DOMAIN findings : findings[k].estimatedMonthlySavings \notin {"12.5", "0.0"}}

\* C15 (as claimed): when the savings of a finding cannot be converted, the
\* call still returns, with one record for each of the other findings, in
\* order, and none for that finding.
C15_BadSavingsExcluded ==
    (call.fn = "aggregate_summary_parallel" /\ call.returned
        /\ call.lookup_ok /\ BadAt(call.findings) # {}) =>
        LET bad == BadAt(call.findings)
        IN  /\ Len(call.aggregation) = Len(call.findings) - Cardinality(bad)
            /\ \A k \in DOMAIN call.findings \ bad :
                 call.aggregation[k - Cardinality({j \in bad : j < k})].RecommendationId
                    = call.findings[k].RecommendationId

\* C16 (as claimed): when the instance-type lookup is unavailable, a call
\* whose findings all have numeric savings returns one record for every
\* finding, and the Rightsize finding of an Ec2Instance has Comments without
\* the enrichment string.
C16_LookupFailureDegrades ==
    (call.fn = "aggregate_summary_parallel" /\ call.returned
        /\ ~call.lookup_ok /\ BadAt(call.findings) = {}) =>
        /\ ~call.raised
        /\ Len(call.aggregation) = Len(call.findings)
        /\ \A k \in DOMAIN call.findings :
             (call.findings[k].actionType = "Rightsize"
                 /\ call.findings[k].currentResourceType = "Ec2Instance")
                => call.aggregation[k].Comments = ""

\* C17: a call that returns gives one record for each finding, in the order
\* of the findings, each with its finding's RecommendationId and with its
\* finding's resourceId as ResourceId (the RecommendationId when the finding
\* has no resourceId), for no finding, one, and lengths one below, at and one
\* above each multiple of 250.
C17_OneRecordPerFinding ==
    (call.fn = "aggregate_summary_parallel" /\ call.returned /\ ~call.raised) =>
        /\ Len(call.aggregation) = Len(call.findings)
        /\ \A k \in DOMAIN call.findings :
             /\ call.aggregation[k].RecommendationId = call.findings[k].RecommendationId
             /\ call.aggregation[k].ResourceId =
                   IF call.findings[k].resourceId = "<None>"
                   THEN call.findings[k].RecommendationId
                   ELSE call.findings[k].resourceId

\* C17's case: 501 findings, three chunks, were parsed with the statuses
\* imported, and the last record is the last finding's.
C17_Witness ==
    /\ call.fn = "aggregate_summary_parallel" /\ call.returned /\ ~call.raised
    /\ call.status_import
    /\ Len(call.findings) = 501
    /\ Len(call.aggregation) = 501
    /\ call.aggregation[501].RecommendationId = "rec-501"
    /\ call.aggregation[1].FinOpsStatus = "In Progress"

\* What exceeds a threshold, or nothing.
Above(x, threshold) == IF x > threshold THEN x - threshold ELSE 0

\* What lies within a tier of the first n units, or all of it.
UpTo(x, n) == IF x < n THEN x ELSE n

\* The price list, in thousandths of a dollar.
PriceList(vtype, iops, throughput, size) ==
    IF vtype = "gp2" THEN 100 * size
    ELSE IF vtype = "gp3" THEN 80 * size + 5 * Above(iops, 3000) + 40 * Above(throughput, 125)
    ELSE IF vtype = "st1" THEN 45 * size
    ELSE IF vtype = "sc1" THEN 15 * size
    ELSE IF vtype = "io1" THEN 125 * size + 65 * iops
    ELSE IF vtype = "io2"
    THEN 125 * size + 65 * UpTo(iops, 32000) + 46 * UpTo(Above(iops, 32000), 32000)
             + 32 * Above(iops, 64000)
    ELSE IF vtype = "standard" THEN 50 * size
    ELSE 1000000000

\* The call was made with a size that is a positive integer.
ValidSize(c) == c.size.type = "int" /\ c.size.value > 0

\* C18: for a positive integer size calcost_ebs returns the price of the
\* price list, and 14.0 for gp3 with 4000 IOPS, 150 MB/s and 100 GiB.
C18_CostIsPiecewiseFormula ==
    (call.fn = "calcost_ebs" /\ call.returned /\ ValidSize(call)) =>
        /\ call.raised = "none"
        /\ call.cost = <<PriceList(call.vtype, call.iops, call.throughput, call.size.value)>>
        /\ (call.vtype = "gp3" /\ call.iops = 4000 /\ call.throughput = 150
               /\ call.size.value = 100) => call.cost = <<14000>>

\* C18's case: gp3 with 4000 IOPS, 150 MB/s and 100 GiB was priced.
C18_Witness ==
    /\ call.fn = "calcost_ebs" /\ call.returned
    /\ call.vtype = "gp3" /\ call.iops = 4000 /\ call.throughput = 150
    /\ call.size = [type |-> "int", value |-> 100]
    /\ call.cost = <<14000>>

\* C19: a larger size never costs less, for the same type, IOPS and
\* throughput; and for gp3, io1 and io2 more IOPS never cost less, for the
\* same size and throughput.
C19_CostMonotone ==
    (call.fn = "calcost_ebs" /\ call.returned /\ ValidSize(call)) =>
        /\ \A size \in SizeInputs :
             (size.type = "int" /\ size.value >= call.size.value) =>
                calcost_ebs(call.vtype, call.iops, call.throughput, size).cost[1]
                    >= call.cost[1]
        /\ call.vtype \in {"gp3", "io1", "io2"} =>
             \A iops \in IopsInputs : iops >= call.iops =>
                calcost_ebs(call.vtype, iops, call.throughput, call.size).cost[1]
                    >= call.cost[1]

\* C19's case: an io2 volume was priced at the 32000 IOPS boundary, where
\* one more IOPS costs more.
C19_Witness ==
    /\ call.fn = "calcost_ebs" /\ call.returned /\ ValidSize(call)
    /\ call.vtype = "io2" /\ call.iops = 32000
    /\ calcost_ebs("io2", 32001, call.throughput, call.size).cost[1] > call.cost[1]

\* C20: for a size that is not an integer, or is zero or negative,
\* calcost_ebs raises and returns no cost, whatever the volume type.
C20_InvalidSizeRaises ==
    (call.fn = "calcost_ebs" /\ call.returned /\ ~ValidSize(call)) =>
        /\ call.raised \in {"TypeError", "ValueError"}
        /\ call.cost = <<>>

\* C20's case: a call for an unknown volume type with size zero raised.
C20_Witness ==
    /\ call.fn = "calcost_ebs" /\ call.returned
    /\ call.vtype = "gp1"
    /\ call.size = [type |-> "int", value |-> 0]
    /\ call.raised = "ValueError"

\* C21 (as claimed): a split of a table with at least one row that lacks any of
\* the expected columns raises and returns no partitions.
C21_MissingColumnRaises ==
    (call.fn = "split_table" /\ call.returned /\ call.rows # <<>>
        /\ call.columns # DF_TYPE_DICT)
    => (call.raised # "none" /\ call.idf = <<>> /\ call.cdf = <<>>)

\* C22: a split of a table with a FinOpsStatus column in which some row's status
\* is not a string (a number, a missing value) raises, and no row is placed in
\* either output: such a row is never classified in-progress.
C22_NonStringStatusRaises ==
    (call.fn = "split_table" /\ call.returned /\ "FinOpsStatus" \in call.columns
        /\ \E k \in DOMAIN call.statuses : call.statuses[k] \in NonStrings)
    => (call.raised = "AttributeError" /\ call.idf = <<>> /\ call.cdf = <<>>)

C22_Witness ==
    /\ call.fn = "split_table" /\ call.returned
    /\ call.columns = DF_TYPE_DICT
    /\ call.statuses = <<"complete", IntCell>>
    /\ call.raised = "AttributeError"

\* A number that may be absent, read as "no charge".
OrZero(v) == IF v = NoValue THEN 0 ELSE v

\* C23 (as claimed): for every volume type and positive integer size, a call of
\* calcost_ebs with iops or throughput (or both) None returns a cost, and the
\* cost is the one of the same volume with the absent values adding no charge.
C23_AbsentValuesAddNoCharge ==
    (call.fn = "calcost_ebs" /\ call.returned
        /\ (call.iops = NoValue \/ call.throughput = NoValue))
    => /\ call.raised = "none"
       /\ call.cost = <<VolumeCost(call.vtype, OrZero(call.iops),
                                   OrZero(call.throughput), call.size.value)>>

\* C24 (as claimed): session A holds a copy of a partition from which another
\* session has since removed a row (the store renumbered the rest from 0) and
\* saves an edit of Comments to the row it sees at index i, a record the store
\* still holds once, no stored row being stamped later than the day of the save:
\* the edit lands on that record, and every other persisted record of the
\* partition stays as it was, none overwritten, added or lost.
C24_EditReachesRecordSeen ==
    [][\A name \in ModifyOps :
        (last'.op = name /\ last'.ses = "A" /\ ~last'.raised /\ Len(last'.edits) = 1) =>
            LET stored == PartOf(name, s3_inprogress, s3_complete, s3_exempt)
                after == PartOf(name, s3_inprogress', s3_complete', s3_exempt')
                sdf == PartOf(name, ss.tracker_df, ss.ctracker_df, ss.extracker_df)
                e == last'.edits[1]
                seen == sdf[e.idx + 1]
                P == {p \in DOMAIN stored : RowKeyOf(stored[p]) = RowKeyOf(seen)}
            IN  (/\ e.cols = [Comments |-> "note"]
                 /\ Len(sdf) > Len(stored)
                 /\ \A p \in DOMAIN stored : stored[p].FinOpsLastModified <= today
                 /\ Cardinality(P) = 1
                 /\ \A p, q \in DOMAIN stored :
                        RowKeyOf(stored[p]) = RowKeyOf(stored[q]) => p = q)
                => /\ Len(after) = Len(stored)
                   /\ \A q \in DOMAIN stored :
                        IF q \in P
                        THEN RowKeyOf(after[q]) = RowKeyOf(seen) /\ after[q].Comments = "note"
                        ELSE after[q] = stored[q]]_vars

\* C26 (as claimed): a run of add_to_tracker or add_self_identified_to_tracker
\* in session A only appends: every row the InProgress partition holds before
\* it, the rows another session wrote since A loaded its copy included, is
\* held unchanged at the same index after it.
C26_AddingOnlyAppends ==
    [][(last'.op \in {"add_to_tracker", "add_self_identified"} /\ last'.ses = "A") =>
          \A p \in DOMAIN s3_inprogress :
              p \in DOMAIN s3_inprogress' /\ s3_inprogress'[p] = s3_inprogress[p]]_vars

\* How many times the three partitions given hold the record r.
Held(r, i, c, e) ==
    Cardinality({k \in DOMAIN i : i[k] = r}) + Cardinality({k \in DOMAIN c : c[k] = r})
        + Cardinality({k \in DOMAIN e : e[k] = r})

\* C28 (as claimed): a run of split_exempt that does not raise leaves every
\* record held as many times across the three partitions as before, keeps in
\* Exempt every record Exempt held, and leaves no record with status exempt
\* in InProgress or Complete.
C28_SplitExemptConserves ==
    [][(last'.op = "split_exempt" /\ ~last'.raised) =>
          /\ \A r \in SeqToSet(s3_inprogress \o s3_complete \o s3_exempt)
                      \cup SeqToSet(s3_inprogress' \o s3_complete' \o s3_exempt') :
                Held(r, s3_inprogress', s3_complete', s3_exempt')
                    = Held(r, s3_inprogress, s3_complete, s3_exempt)
          /\ SeqToSet(s3_exempt) \subseteq SeqToSet(s3_exempt')
          /\ \A r \in SeqToSet(s3_inprogress' \o s3_complete') :
                Lower(r.FinOpsStatus) # "exempt"]_vars

\* C29: when no row of the partition is stamped later than the day of the save
\* (the clock has not gone backwards since a save stamped it), a save of
\* modify_complete_tracker or modify_exempt_tracker rejects no edit: it does not
\* raise and the list it returns is empty, also when another session saved the
\* row after the saving session rendered its copy.
C29_NoRejectionUnderMonotoneClock ==
    (/\ call.fn \in {"modify_complete", "modify_exempt"} /\ call.returned
     /\ \A k \in DOMAIN call.stored :
            /\ call.stored[k].FinOpsLastModified # NoDate
            /\ call.stored[k].FinOpsLastModified <= call.now)
    => (~call.raised /\ call.unwritten = <<>>)

\* C29's case: another session saved row 0 after the copy was rendered and on
\* the day of the save; the edit of row 0 was written all the same.
C29_Witness ==
    /\ call.fn = "modify_complete" /\ call.returned /\ ~call.raised
    /\ call.edits = <<[idx |-> 0, cols |-> [Comments |-> "note"]]>>
    /\ call.stored[1].FinOpsLastModified = call.now
    /\ call.sdf[1].FinOpsLastModified < call.now
    /\ call.stored[1].Comments = "theirs"
    /\ call.unwritten = <<>>
    /\ call.df[1].Comments = "note"

\* The greatest element of a non-empty set of indexes.
LastOf(m) == CHOOSE k \in m : \A j \in m : j <= k

\* C30: import_status returns as many findings as it was given, in order; a
\* finding matched by records with a status that is not terminal takes the
\* status of the last of them in the in-progress snapshot followed by the
\* exempt snapshot, and no other field of it changes; any other finding is
\* returned as it was.
C30_LastMatchWins ==
    (call.fn = "import_status" /\ call.returned) =>
        LET merged == call.tracker_df \o call.extracker_df
        IN  /\ Len(call.out) = Len(call.aggregation)
            /\ \A a \in DOMAIN call.aggregation :
                 LET m == Importable(merged, call.aggregation[a])
                 IN  call.out[a] =
                        IF m = {} THEN call.aggregation[a]
                        ELSE [call.aggregation[a] EXCEPT
                                 !.FinOpsStatus = merged[LastOf(m)].FinOpsStatus]

\* C30's case: a finding matched by an In Progress record of the in-progress
\* snapshot and by an Exempt record of the exempt snapshot came out Exempt.
C30_Witness ==
    /\ call.fn = "import_status" /\ call.returned
    /\ \E a \in DOMAIN call.out :
         /\ call.out[a].FinOpsStatus = "Exempt"
         /\ \E j \in DOMAIN call.tracker_df, k \in DOMAIN call.extracker_df :
              /\ RowKeyOf(call.tracker_df[j]) = RowKeyOf(call.aggregation[a])
              /\ RowKeyOf(call.extracker_df[k]) = RowKeyOf(call.aggregation[a])
              /\ call.tracker_df[j].FinOpsStatus = "In Progress"
              /\ call.extracker_df[k].FinOpsStatus = "Exempt"

\* C25 (as claimed): when the two sessions have each saved an edit of Comments
\* to a different row of the same partition, through the same handler, and
\* both saves have finished, the persisted partition holds both edits,
\* whatever the order of the saves' downloads and uploads.
C25_BothEditsPersist ==
    (/\ call.fn = "saves"
     /\ call.procs["A"].pc = "done" /\ call.procs["B"].pc = "done"
     /\ call.procs["A"].handler = call.procs["B"].handler
     /\ call.procs["A"].edits[1].cols = [Comments |-> "note"]
     /\ call.procs["B"].edits[1].cols = [Comments |-> "note"]
     /\ call.procs["A"].edits[1].idx # call.procs["B"].edits[1].idx)
    => LET part == PartOf(call.procs["A"].handler, s3_inprogress, s3_complete, s3_exempt)
       IN  \A k \in DOMAIN part : part[k].Comments = "note"

\* C27 (as claimed): while a save of modify_inprogress_tracker that moves a
\* row to Complete or Exempt is between its uploads, has stopped between two
\* of them or has finished, the other session saving nothing, some persisted
\* partition holds the moved record.
C27_MovedRecordAlwaysHeld ==
    \A s \in Sessions :
        (/\ call.fn = "saves"
         /\ call.procs[s].handler = "modify_inprogress"
         /\ \A t \in Sessions \ {s} : call.procs[t].handler = "none"
         /\ call.procs[s].pc \in {"write_c", "write_e", "stopped", "done"}
         /\ "FinOpsStatus" \in DOMAIN call.procs[s].edits[1].cols
         /\ Lower(call.procs[s].edits[1].cols.FinOpsStatus) \in {"complete", "exempt"})
        => \E r \in SeqToSet(s3_inprogress \o s3_complete \o s3_exempt) :
              RowKeyOf(r) = RowKeyOf(call.procs[s].sdf[call.procs[s].edits[1].idx + 1])

====
